---- MODULE Spec2Model ----
(***************************************************************************)
(* State-machine model of the real-time event router (src/index.js) and of *)
(* the reward / bonus operations of src/services/user-service.js.          *)
(*                                                                         *)
(* The specifications share the variables:                                 *)
(*   SpecRouter  : the Redis 'message' handler and the increaseAmountWon   *)
(*                 calls it starts, each await a step of its own;          *)
(*   SpecFailure : the handler while the datastore may fail a call;        *)
(*   SpecAward   : checkTotalBetsAward / createUserAwardEvent;             *)
(*   SpecMint    : createUserAwardEvent and mintUser called directly;      *)
(*   SpecBonus   : checkUserRegistrationBonus;                             *)
(*   SpecRank    : getRankByUserId over every population of four users;    *)
(*   SpecUser    : the per-user mutations, for a stored and an unknown id; *)
(*   SpecUpdate  : updateUser calls on the stored users, overlapping;      *)
(*   SpecPrefs   : updateUserPreferences alone;                            *)
(*   SpecCodec   : an envelope from JSON.stringify to JSON.parse;          *)
(*   SpecBan     : updateBanDeadline and updateStatus on one user;         *)
(*   SpecMain    : main() from its call to the messages it then handles.   *)
(***************************************************************************)
EXTENDS Integers, Sequences, FiniteSets

\* ------------------------------------------------------------------ bounds
MaxMessages == 2      \* raw messages the transport delivers (SpecRouter)
MaxEmits == 3         \* raw messages the transport delivers (SpecMain)
MaxCalls == 1         \* increaseAmountWon calls started by other callers than the router
MaxReward == 2        \* rewards carried by an envelope are 1..MaxReward
InitialWon == 10      \* amountWon of every user at start
MaxBets == 17         \* bets placed in one behaviour (SpecAward)
MaxPublished == 3     \* user_award notifications after which no further check is made
MaxChecks == 1        \* checkTotalBetsAward calls waiting for their total at one time
MaxRegs == 3          \* checkUserRegistrationBonus calls in one behaviour
MaxTime == 2          \* the clock runs from 0 to MaxTime

\* --------------------------------------------------------------- universes
Users == {"u1", "u2"}             \* ids of the stored user documents
GhostUser == "u9"                 \* an id that matches no user document
RoomKeys == Users                 \* rooms are keyed by recipient identity
NONE == "undefined"               \* JavaScript's undefined
Events == {"CASINO_REWARD", "BET_STARTED"}
Rewards == 1..MaxReward

\* ------------------------------------------------------------------- state
VARIABLES
    \* src/index.js, subClient.on('message')
    handled,       \* number of raw messages the handler has been run on
    thrown,        \* the messages whose handler threw to the transport, and where
    subscriberUp,  \* FALSE once an uncaught exception has ended the process
    emitted,       \* io.of('/').to(..).emit(..) calls, in order
    \* src/services/user-service.js, increaseAmountWon
    calls,         \* the started increaseAmountWon calls
    amountWon,     \* User.amountWon of every stored user
    \* socket.io rooms
    connected,     \* live connections
    rooms,         \* room key -> set of member connections
    \* src/services/user-service.js, checkTotalBetsAward / createUserAwardEvent
    totalBets,     \* lifetime number of bets of every user (statistics service)
    startBets,     \* totalBets at start
    published,     \* the user_award notifications sent to the message broker
    checks,        \* the checkTotalBetsAward calls that wait for their total
    expect,        \* observer of the totals sequence 4,5,6,..: the next total due
    \* src/services/user-service.js, checkUserRegistrationBonus
    now,           \* the clock
    bonus,         \* per followed user: times the registration bonus was granted
    others,        \* number of other users that hold the registration bonus
    regs,          \* the checkUserRegistrationBonus calls
    overlapped,    \* TRUE once two checkUserRegistrationBonus calls have overlapped
    \* src/services/user-service.js, getRankByUserId
    population,    \* the stored users the ranking reads: amountWon, date, username
    ranking,       \* what getRankByUserId returned for every id asked so far
    \* src/services/user-service.js, the per-user mutations
    docs,          \* the stored user documents: status, reactivateOn, currency, ...
    pending,       \* the calls of per-user mutations that wait at an await
    sent,          \* amqp.send(..) calls, in order
    outcome,       \* the latest service call and how it ended
    uploaded,      \* awsS3Service.upload(..) calls, in order
    \* the notification envelope on its way from a publisher to the router
    envelope,      \* the object a publisher builds
    wire,          \* its text on the transport
    decoded,       \* the object the router's JSON.parse returns
    \* src/index.js, main()
    boot           \* how far main() has come: its position, the steps done, its error

routerVars == <<handled, thrown, subscriberUp, emitted>>
ledgerVars == <<calls, amountWon>>
socketVars == <<connected, rooms>>
awardVars == <<totalBets, startBets, published, checks, expect>>
bonusVars == <<now, bonus, others, regs, overlapped>>
rankVars == <<population, ranking>>
userVars == <<docs, pending, sent, outcome, uploaded>>
codecVars == <<envelope, wire, decoded>>
mainVars == <<boot>>
vars == <<handled, thrown, subscriberUp, emitted, calls, amountWon, connected, rooms,
          totalBets, startBets, published, checks, expect,
          now, bonus, others, regs, overlapped,
          population, ranking, docs, pending, sent, outcome, uploaded, envelope, wire, decoded, boot>>

\* ------------------------------------------------- envelope text (JSON)
NoData == [defined |-> FALSE]
DataOf(r) == [defined |-> TRUE, reward |-> r]
Datas == {NoData} \cup {DataOf(r) : r \in Rewards}
Envelopes == [event : Events, to : Users \cup {NONE}, data : Datas]

\* Texts that are not the JSON text of an object.
GarbageText == [kind |-> "garbage", members |-> <<>>]   \* not valid JSON
NullText == [kind |-> "null", members |-> <<>>]         \* the JSON text null

\* JSON.stringify of an envelope object: the members in insertion order, a
\* member whose value is undefined left out.
JSONstringify(env) ==
    [kind |-> "object",
     members |-> <<<<"event", env.event>>>>
                 \o (IF env.to = NONE THEN <<>> ELSE <<<<"to", env.to>>>>)
                 \o (IF env.data.defined THEN <<<<"data", env.data>>>> ELSE <<>>)]

\* The value of member key of a parsed object; absent when there is none.
Member(members, key, absent) ==
    LET idx == {i \in 1..Len(members) : members[i][1] = key}
    IN  IF idx = {} THEN absent
        ELSE members[CHOOSE i \in idx : \A j \in idx : j <= i][2]

\* JSON.parse(message): throws a SyntaxError on text that is not JSON, gives
\* null for the text null, and otherwise the object with the text's members.
JSONparse(text) ==
    [threw |-> text.kind = "garbage",
     isNull |-> text.kind = "null",
     event |-> Member(text.members, "event", NONE),
     to |-> Member(text.members, "to", NONE),
     data |-> Member(text.members, "data", NoData)]

RawMessages == {GarbageText, NullText} \cup {JSONstringify(e) : e \in Envelopes}

\* The texts SpecMain delivers: not JSON, or a notification for a room or for
\* nobody in particular.
FanoutMessages ==
    {GarbageText} \cup {JSONstringify([event |-> "BET_STARTED", to |-> t, data |-> DataOf(1)]) :
                            t \in Users \cup {NONE}}

\* ------------------------------------------------------ socket.io rooms
\* io.of('/').to(room): the connections an emit addressed at room reaches.
\* A room nobody joined (also the room named undefined) has no members.
ioTo(room) == IF room \in DOMAIN rooms THEN rooms[room] ELSE {}

\* io.of('/').to(room): the rooms the emit is restricted to.  to() adds its
\* argument whatever it is, undefined too; only an emit made without to()
\* is restricted to no room and reaches every live connection.
ioToRooms(room) == {room}

\* main() has carried out the start-up statement named step.
Done(step) == \E i \in 1..Len(boot.steps) : boot.steps[i] = step

\* ------------------------------------------------------ increaseAmountWon
\* A call that has run up to its first await, User.startSession() (line
\* 352): nothing has been read yet.  msg is the index of the router message
\* that started the call, 0 for a call started by another caller.
NewCall(userId, amount, k) ==
    [userId |-> userId, amount |-> amount, msg |-> k, pc |-> "session", amountWon |-> 0,
     rejection |-> "none"]

\* A caller other than the router starts increaseAmountWon(userId, amount).
increaseAmountWon(userId, amount) ==
    /\ Cardinality({i \in 1..Len(calls) : calls[i].msg = 0}) < MaxCalls
    /\ calls' = Append(calls, NewCall(userId, amount, 0))
    /\ UNCHANGED <<amountWon, routerVars, socketVars, awardVars, bonusVars, rankVars, userVars, codecVars, mainVars>>

\* await User.startSession()  (line 352) has answered: the call enters the
\* try block and withTransaction, and awaits the query of line 355.
StartSession(i) ==
    /\ calls[i].pc = "session"
    /\ calls' = [calls EXCEPT ![i].pc = "find"]
    /\ UNCHANGED <<amountWon, routerVars, socketVars, awardVars, bonusVars, rankVars, userVars, codecVars, mainVars>>

\* user = await User.findById(..).exec(); if (user) user.amountWon += +amount.
\* The query is not bound to the session, so it reads the committed value.
\* With a user the save is awaited next; with none the callback of
\* withTransaction returns and the commit is awaited.
FindUser(i) ==
    /\ calls[i].pc = "find"
    /\ calls' = [calls EXCEPT ![i] =
                   IF calls[i].userId \in Users
                   THEN [@ EXCEPT !.pc = "save",
                                  !.amountWon = amountWon[calls[i].userId] + calls[i].amount]
                   ELSE [@ EXCEPT !.pc = "commit"]]
    /\ UNCHANGED <<amountWon, routerVars, socketVars, awardVars, bonusVars, rankVars, userVars, codecVars, mainVars>>

\* await user.save()  (line 359): writes the document's amountWon ($set),
\* outside the transaction; the callback returns and the commit is awaited.
SaveUser(i) ==
    /\ calls[i].pc = "save"
    /\ amountWon' = [amountWon EXCEPT ![calls[i].userId] = calls[i].amountWon]
    /\ calls' = [calls EXCEPT ![i].pc = "commit"]
    /\ UNCHANGED <<routerVars, socketVars, awardVars, bonusVars, rankVars, userVars, codecVars, mainVars>>

\* withTransaction commits  (line 361); the finally block then awaits
\* endSession.
CommitTransaction(i) ==
    /\ calls[i].pc = "commit"
    /\ calls' = [calls EXCEPT ![i].pc = "end"]
    /\ UNCHANGED <<amountWon, routerVars, socketVars, awardVars, bonusVars, rankVars, userVars, codecVars, mainVars>>

\* The promise of call i rejects.  A caller that holds the promise gets the
\* error.  The router drops the promise: it does not await the call and
\* attaches no handler (src/index.js line 112), so there the rejection is an
\* unhandled one.  What the process does then is the runtime's choice: it
\* only warns (node --unhandled-rejections=warn, the default before Node
\* 15), or it exits with code 1 (the default since) and handles no further
\* message.
Rejects(i) ==
    /\ calls' = [calls EXCEPT ![i].pc = "failed",
                              ![i].rejection = IF calls[i].msg > 0 THEN "unhandled"
                                               ELSE "caller"]
    /\ IF calls[i].msg > 0 THEN subscriberUp' \in BOOLEAN ELSE subscriberUp' = subscriberUp

\* await userSession.endSession()  (line 366): the call resolves, or rejects
\* with the error the catch block has rethrown.
EndSession(i) ==
    /\ calls[i].pc \in {"end", "abort"}
    /\ IF calls[i].pc = "end"
       THEN calls' = [calls EXCEPT ![i].pc = "done"] /\ subscriberUp' = subscriberUp
       ELSE Rejects(i)
    /\ UNCHANGED <<amountWon, handled, thrown, emitted, socketVars, awardVars, bonusVars,
                   rankVars, userVars, codecVars, mainVars>>

\* The datastore fails the call at its pending step.  startSession is
\* awaited outside the try block (line 352): when it fails the call rejects
\* at once, and neither the catch nor the finally block runs.  A failed
\* query, save or commit is caught, logged and rethrown (lines 362-364) and
\* the finally block awaits endSession; a failed endSession rejects the
\* call.  What a save has written before stays written.
FailCall(i) ==
    /\ calls[i].pc \in {"session", "find", "save", "commit", "end", "abort"}
    /\ IF calls[i].pc \in {"find", "save", "commit"}
       THEN calls' = [calls EXCEPT ![i].pc = "abort"] /\ subscriberUp' = subscriberUp
       ELSE Rejects(i)
    /\ UNCHANGED <<amountWon, handled, thrown, emitted, socketVars, awardVars, bonusVars,
                   rankVars, userVars, codecVars, mainVars>>

\* --------------------------------------------- subClient.on('message')
\* Whether the handler throws on text: JSON.parse fails (line 103), the
\* parsed value is null (line 107), or a CASINO_REWARD has no data (line 112).
HandlerThrows(text) ==
    LET messageObj == JSONparse(text)
    IN  \/ messageObj.threw
        \/ messageObj.isNull
        \/ (messageObj.event = "CASINO_REWARD" /\ ~messageObj.data.defined)

\* The line of the handler that throws on text.
ThrownAt(text) ==
    LET messageObj == JSONparse(text)
    IN  IF messageObj.threw THEN 103 ELSE IF messageObj.isNull THEN 107 ELSE 112

\* The emit of line 115, as recorded for message k.
Emit(k, messageObj) ==
    [msg |-> k, room |-> messageObj.to, rooms |-> ioToRooms(messageObj.to),
     event |-> messageObj.event, data |-> messageObj.data,
     recipients |-> ioTo(messageObj.to)]

\* One run of the handler.  It is synchronous: a started increaseAmountWon
\* call is not awaited.  An exception leaves the handler and reaches the
\* transport's emitter; whether the process survives it is the runtime's
\* choice, so both outcomes are allowed.
OnMessage(text) ==
    /\ Done("onMessage") /\ Done("subscribe")
    /\ subscriberUp
    /\ handled' = handled + 1
    /\ LET k == handled + 1
           messageObj == JSONparse(text)
       IN  IF HandlerThrows(text)
           THEN /\ thrown' = thrown \cup {[msg |-> k, line |-> ThrownAt(text)]}
                /\ subscriberUp' \in BOOLEAN
                /\ UNCHANGED <<emitted, calls>>
           ELSE /\ calls' = IF messageObj.event = "CASINO_REWARD"
                            THEN Append(calls, NewCall(messageObj.to, messageObj.data.reward, k))
                            ELSE calls
                /\ emitted' = Append(emitted, Emit(k, messageObj))
                /\ UNCHANGED <<thrown, subscriberUp>>
    /\ UNCHANGED <<amountWon, socketVars, awardVars, bonusVars, rankVars, userVars, codecVars, mainVars>>

\* ------------------------------------------ checkTotalBetsAward (awards)
StartTotals == {0, 4, 48, 98, 148}
Milestones == {5, 20, 50, 100, 150}

\* WFAIR_REWARDS.totalBets[total]: the fixed reward table; 0 stands for a
\* total the table has no entry for.
WFAIR_REWARDS_totalBets(total) ==
    CASE total = 5 -> 100
      [] total = 20 -> 200
      [] total = 50 -> 300
      [] total = 100 -> 500
      [] total = 150 -> 1000
      [] OTHER -> 0

\* await getUserBetsAmount(userId).catch(..): the statistics of the user, or
\* undefined when the lookup failed.
getUserBetsAmount(userId, lookupOk) ==
    IF lookupOk THEN [defined |-> TRUE, totalBets |-> totalBets[userId]]
    ELSE [defined |-> FALSE, totalBets |-> 0]

\* totalUserBets?.totalBets || 0
TotalOf(totalUserBets) ==
    IF totalUserBets.defined THEN totalUserBets.totalBets ELSE 0

\* Mutant of AwardDue: a threshold test instead of an exact match.
AwardDueAtLeast(total) == total >= 5

\* [5, 20, 50, 100, 150].includes(total)
AwardDue(total) == total \in Milestones

\* mintUser always throws.
mintUser(userId, amount) == [threw |-> TRUE, error |-> "Not supported"]

\* The notification createUserAwardEvent sends.
UserAward(userId, awardData, broadcast) ==
    [event |-> "EVENT_USER_AWARD", producer |-> "user", producerId |-> userId,
     data |-> [userId |-> userId, awardData |-> awardData], broadcast |-> broadcast]

\* createUserAwardEvent({userId, awardData, broadcast}): the mint is tried when
\* the award amount is truthy, its error is caught and logged, and the
\* notification is sent either way.  The value is the broker's new content.
createUserAwardEvent(userId, awardData, broadcast) ==
    LET minted == IF awardData.award # 0 THEN mintUser(userId, awardData.award).threw = FALSE
                  ELSE FALSE
    IN  Append(published, UserAward(userId, awardData, broadcast))

\* A handler that lets the rejection through.
Rethrow(result) == result

\* .catch((err) => { console.error('award mintUser', err); })  (lines 389-391):
\* the rejection is logged and the flow goes on.
Catch(result) == [threw |-> FALSE, error |-> "none"]

\* How createUserAwardEvent ends: the mint is awaited only when the award
\* amount is truthy, and its rejection is caught.
createUserAwardEventResult(userId, awardData) ==
    IF awardData.award # 0
    THEN Catch(mintUser(userId, awardData.award))
    ELSE [threw |-> FALSE, error |-> "none"]

\* The record of a service call: its name, arguments and error ("none" when
\* it resolved).  tick flips with every call.
Called(op, userId, input, error) ==
    [op |-> op, userId |-> userId, input |-> input, error |-> error, tick |-> ~outcome.tick]

\* The award data of direct createUserAwardEvent calls: with and without an
\* award amount (0 stands for no amount).
AwardDatas == {[type |-> "SET_USERNAME", total |-> 0, award |-> a] : a \in {0, 50}}

\* rewardUserAction(ref, amount)  (lines 55-59): with a ref it awaits
\* mintUser(ref, amount), with none (undefined) it resolves at once.
rewardUserAction(ref, amount) ==
    /\ outcome' = IF ref # NONE
                  THEN Called("mintUser", ref, [amount |-> amount], mintUser(ref, amount).error)
                  ELSE Called("rewardUserAction", ref, [amount |-> amount], "none")
    /\ UNCHANGED <<docs, pending, sent, uploaded, routerVars, ledgerVars, socketVars, awardVars,
                   bonusVars, rankVars, codecVars, mainVars>>

\* A service calls createUserAwardEvent({ userId, awardData, broadcast }).
CallCreateUserAwardEvent(userId, awardData, broadcast) ==
    /\ Len(published) < MaxPublished
    /\ published' = createUserAwardEvent(userId, awardData, broadcast)
    /\ outcome' = Called("createUserAwardEvent", userId,
                         [awardData |-> awardData, broadcast |-> broadcast],
                         createUserAwardEventResult(userId, awardData).error)
    /\ UNCHANGED <<docs, pending, sent, uploaded, totalBets, startBets, checks, expect,
                   routerVars, ledgerVars, socketVars, bonusVars, rankVars, codecVars, mainVars>>

\* The totals-sequence observer after a call that read total.
Observe(due, total) == IF due # 0 /\ due = total THEN total + 1 ELSE 0

\* seq without its element i.
Remove(seq, i) == SubSeq(seq, 1, i - 1) \o SubSeq(seq, i + 1, Len(seq))

\* checkTotalBetsAward(userId) up to its await  (lines 415-422): the
\* statistics are asked for and the lookup reads the user's total, or fails
\* (lookupOk).
checkTotalBetsAward(userId, lookupOk) ==
    /\ Len(checks) < MaxChecks
    /\ Len(published) < MaxPublished
    /\ checks' = Append(checks, [userId |-> userId, lookupOk |-> lookupOk,
                                 totalUserBets |-> getUserBetsAmount(userId, lookupOk)])
    /\ UNCHANGED <<totalBets, startBets, published, expect,
                   routerVars, ledgerVars, socketVars, bonusVars, rankVars, userVars, codecVars, mainVars>>

\* The call goes on with what the lookup gave  (lines 424-436): the award of
\* a milestone total is published, whatever the user's total has become.
checkTotalBetsAwardResumes(i) ==
    /\ LET userId == checks[i].userId
           total == TotalOf(checks[i].totalUserBets)
           awardData == [type |-> "TOTAL_BETS_ABOVE_VALUE", total |-> total,
                         award |-> WFAIR_REWARDS_totalBets(total)]
       IN  /\ published' = IF AwardDue(total)
                           THEN createUserAwardEvent(userId, awardData, FALSE)
                           ELSE published
           /\ expect' = [expect EXCEPT ![userId] = Observe(@, total)]
    /\ checks' = Remove(checks, i)
    /\ UNCHANGED <<totalBets, startBets, routerVars, ledgerVars, socketVars, bonusVars, rankVars, userVars, codecVars, mainVars>>

BetsPlaced(u) == totalBets[u] - startBets[u]

\* The user places one more bet: the statistics service counts it.
PlaceBet(u) ==
    /\ BetsPlaced("u1") + BetsPlaced("u2") < MaxBets
    /\ totalBets' = [totalBets EXCEPT ![u] = @ + 1]
    /\ UNCHANGED <<startBets, published, checks, expect,
                   routerVars, ledgerVars, socketVars, bonusVars, rankVars, userVars, codecVars, mainVars>>

\* ---------------------------------- checkUserRegistrationBonus (bonus)
totalUsers == 1000
bonusValidUntil == 1      \* BONUS_TYPES.LAUNCH_1k_500.endDate, on the model's clock
BonusUsers == {"u1", "u2", "u3"}
StartHolders == {0} \cup ((totalUsers - 2)..totalUsers)

\* User.find({'bonus.name': LAUNCH_1k_500.type}).length
alreadyRegistered == others + Cardinality({u \in BonusUsers : bonus[u] > 0})

\* A deadline test that never ends the program.
BonusPeriodNeverOver(t) == FALSE

\* if (validUntil < now) return;  (line 483), for a call made at time t.
BonusPeriodOver(t) == bonusValidUntil < t

\* checkUserRegistrationBonus(userId) up to its first await: past the
\* deadline the call returns at once, otherwise it asks for the holders.
\* at records the time of the call (const now = new Date()).
checkUserRegistrationBonus(userId) ==
    /\ Len(regs) < MaxRegs
    /\ regs' = Append(regs, [userId |-> userId, count |-> 0, at |-> now,
                             pc |-> IF BonusPeriodOver(now) THEN "done" ELSE "find"])
    /\ overlapped' = (overlapped \/ \E i \in 1..Len(regs) : regs[i].pc # "done")
    /\ UNCHANGED <<now, bonus, others, routerVars, ledgerVars, socketVars, awardVars, rankVars, userVars, codecVars, mainVars>>

\* The query answers; the capacity test of line 497.
WithinCapacity(count) == count <= totalUsers

FindRegistered(i) ==
    /\ regs[i].pc = "find"
    /\ regs' = [regs EXCEPT ![i] =
                  [@ EXCEPT !.count = alreadyRegistered,
                            !.pc = IF WithinCapacity(alreadyRegistered) THEN "transfer" ELSE "done"]]
    /\ UNCHANGED <<now, bonus, others, overlapped,
                   routerVars, ledgerVars, socketVars, awardVars, rankVars, userVars, codecVars, mainVars>>

\* await walletUtil.transferBonus(amount, userId): the user holds the bonus.
transferBonus(i) ==
    /\ regs[i].pc = "transfer"
    /\ bonus' = [bonus EXCEPT ![regs[i].userId] = @ + 1]
    /\ regs' = [regs EXCEPT ![i].pc = "done"]
    /\ UNCHANGED <<now, others, overlapped, routerVars, ledgerVars, socketVars, awardVars, rankVars, userVars, codecVars, mainVars>>

\* Time passes.
Tick ==
    /\ now < MaxTime
    /\ now' = now + 1
    /\ UNCHANGED <<bonus, others, regs, overlapped,
                   routerVars, ledgerVars, socketVars, awardVars, rankVars, userVars, codecVars, mainVars>>

\* ------------------------------------------- notification envelopes sent
\* The members of an envelope, in the order the publishers write them.
KeyOrder == <<"event", "producer", "producerId", "data", "date", "broadcast", "to">>

\* The members of a data object, in the order the publishers write them.
DataKeyOrder == <<"userId", "name", "oldName", "username", "oldUsername", "image",
                  "notificationSettings", "currency", "reward", "updatedAt">>

\* The data members that hold a string or undefined.
StringKeys == {"name", "oldName", "username", "oldUsername", "image"}

\* JSON.stringify of the members of obj: a member whose value is undefined
\* is left out.
RECURSIVE Members(_, _)
Members(obj, keys) ==
    IF keys = <<>> THEN <<>>
    ELSE (IF /\ Head(keys) \in DOMAIN obj
             /\ ~(Head(keys) \in StringKeys /\ obj[Head(keys)] = NONE)
          THEN <<<<Head(keys), obj[Head(keys)]>>>>
          ELSE <<>>) \o Members(obj, Tail(keys))

\* A publisher that stringifies the data object on its own first, so that the
\* envelope carries it as a string.
StringifyDataAsText(obj) ==
    [kind |-> "object",
     members |-> Members([k \in DOMAIN obj |->
                            IF k = "data"
                            THEN [kind |-> "string", members |-> Members(obj[k], DataKeyOrder)]
                            ELSE obj[k]],
                         KeyOrder)]

\* JSON.stringify(obj) of an envelope object: its text, with the text of the
\* data object nested in it.
Stringify(obj) ==
    [kind |-> "object",
     members |-> Members([k \in DOMAIN obj |->
                            IF k = "data"
                            THEN [kind |-> "object", members |-> Members(obj[k], DataKeyOrder)]
                            ELSE obj[k]],
                         KeyOrder)]

\* The object a text of members stands for.
ObjectOf(members) ==
    [k \in {members[i][1] : i \in 1..Len(members)} |-> Member(members, k, NONE)]

\* JSON.parse(message) of an envelope text  (src/index.js line 103): a
\* nested object text becomes an object, every other value stays as it is.
ParsedObject(text) ==
    LET top == ObjectOf(text.members)
    IN  [k \in DOMAIN top |->
           IF k = "data" /\ top[k].kind = "object" THEN ObjectOf(top[k].members) ELSE top[k]]

\* The envelope object of the publishers that stamp the date  (lines 152-164).
Envelope(event, producerId, data, date) ==
    [event |-> event, producer |-> "user", producerId |-> producerId, data |-> data,
     date |-> date, broadcast |-> TRUE]

\* amqp.send('universal_events', routingKey, JSON.stringify(obj))
Send(queue, routingKey, obj) ==
    Append(queue, [routingKey |-> routingKey, message |-> Stringify(obj)])

\* An envelope addressed to a recipient.
WithTo(env, t) == [k \in DOMAIN env \cup {"to"} |-> IF k = "to" THEN t ELSE env[k]]

\* The data objects of the envelopes on the channel: of a name change (the
\* old name is undefined when the user had none), of a reward, of a currency.
CodecDatas ==
    {[userId |-> "u1", name |-> "Bob", oldName |-> o, updatedAt |-> d] :
       o \in {"Ann", NONE}, d \in 0..1}
    \cup {[reward |-> r] : r \in Rewards}
    \cup {[currency |-> "EUR"]}

\* The envelopes of the channel: broadcasts, and the same addressed to a user.
BroadcastEnvelopes ==
    {Envelope(e, p, d, t) :
       e \in {"EVENT_USER_CHANGED_NAME", "CASINO_REWARD"}, p \in Users,
       d \in CodecDatas, t \in 0..1}
NotificationEnvelopes ==
    BroadcastEnvelopes
    \cup {WithTo([env EXCEPT !.broadcast = FALSE], t) : env \in BroadcastEnvelopes, t \in Users}

NoText == [kind |-> "none", members |-> <<>>]
NotDecoded == [done |-> FALSE, object |-> NoData]

\* A publisher puts the text of its envelope on the channel.
Publish ==
    /\ wire = NoText
    /\ wire' = Stringify(envelope)
    /\ UNCHANGED <<envelope, decoded, routerVars, ledgerVars, socketVars, awardVars,
                   bonusVars, rankVars, userVars, mainVars>>

\* The router parses the text it received.
Receive ==
    /\ wire # NoText
    /\ ~decoded.done
    /\ decoded' = [done |-> TRUE, object |-> ParsedObject(wire)]
    /\ UNCHANGED <<envelope, wire, routerVars, ledgerVars, socketVars, awardVars,
                   bonusVars, rankVars, userVars, mainVars>>

\* ------------------------------------------------ the per-user mutations
CURRENCIES == {"WFAIR", "EUR", "USD"}
MaxSent == 2             \* amqp.send and upload calls after which no further update is made
MaxInFlight == 2         \* calls of per-user mutations waiting at one time
NullDate == 0            \* reactivateOn: null

\* A stored user as registration leaves it.
FreshUser ==
    [status |-> "active", reactivateOn |-> NullDate, statusDescription |-> "null",
     currency |-> "WFAIR", tosConsentedAt |-> NONE,
     name |-> "Ann", username |-> "ann", profilePicture |-> NONE,
     alpacaBuilderProps |-> NONE, notificationSettings |-> "all", aboutMe |-> NONE]

\* new Date().toUTCString(): the date to the second.
UTCString(t) == IF t < 1000 THEN "Thu, 01 Jan 1970 00:00:00 GMT" ELSE "Thu, 01 Jan 1970 00:00:01 GMT"

\* User.findById(userId) finds a document.
Found(userId) == userId \in Users

\* A call of a per-user mutation as it waits for User.findById: nothing
\* has been read yet.  user is the document the call holds once it has one,
\* read the same document as the query returned it.
Awaiting(op, userId, input) ==
    [op |-> op, userId |-> userId, input |-> input, pc |-> "find",
     found |-> FALSE, user |-> FreshUser, read |-> FreshUser]

\* The call is made and runs up to its first await.
Start(call) ==
    /\ Len(pending) < MaxInFlight
    /\ pending' = Append(pending, call)
    /\ UNCHANGED <<docs, sent, uploaded, outcome>>

\* Call i settles: it resolves (error "none") or rejects with error.
Settle(i, error) ==
    /\ pending' = Remove(pending, i)
    /\ outcome' = Called(pending[i].op, pending[i].userId, pending[i].input, error)

\* The query of call i has answered with its document, or with null.
Fetched(i) ==
    IF Found(pending[i].userId)
    THEN [pending[i] EXCEPT !.found = TRUE, !.user = docs[pending[i].userId],
                            !.read = docs[pending[i].userId]]
    ELSE pending[i]

\* Call i goes on to its next await as call.
Goes(i, call) ==
    /\ pending' = [pending EXCEPT ![i] = call]
    /\ outcome' = outcome

\* What user.save() of call leaves in the store: the paths whose value the
\* call changed are set, every other path stays as stored.
Saved(stored, call) ==
    [path \in DOMAIN stored |->
       IF call.user[path] # call.read[path] THEN call.user[path] ELSE stored[path]]

\* await user.save() of call i: the write lands and the call resolves.
SaveDocument(i) ==
    /\ pending[i].pc = "save"
    /\ docs' = [docs EXCEPT ![pending[i].userId] = Saved(@, pending[i])]
    /\ Settle(i, "none")
    /\ UNCHANGED <<sent, uploaded, routerVars, ledgerVars, socketVars, awardVars,
                   bonusVars, rankVars, codecVars, mainVars>>

\* The datastore (or the upload) fails call i at its pending await: nothing
\* is written and the call rejects.  What the call has sent stays sent.
FailAwait(i) ==
    /\ pending[i].pc \in {"find", "save", "upload"}
    /\ Settle(i, "datastore failure")
    /\ UNCHANGED <<docs, sent, uploaded, routerVars, ledgerVars, socketVars, awardVars,
                   bonusVars, rankVars, codecVars, mainVars>>

\* saveUser(user, session)  (line 53): a caller saves a document it has read
\* and given another name.
saveUser(userId, name) ==
    /\ Found(userId)
    /\ Start([Awaiting("saveUser", userId, [name |-> name])
                EXCEPT !.pc = "save", !.found = TRUE, !.read = docs[userId],
                       !.user = [docs[userId] EXCEPT !.name = name]])
    /\ UNCHANGED <<routerVars, ledgerVars, socketVars, awardVars,
                   bonusVars, rankVars, codecVars, mainVars>>

\* updateStatus(userId, status) up to its await  (lines 370-371)
updateStatus(userId, status) ==
    /\ Start(Awaiting("updateStatus", userId, [status |-> status]))
    /\ UNCHANGED <<routerVars, ledgerVars, socketVars, awardVars,
                   bonusVars, rankVars, codecVars, mainVars>>

\* updateStatus after the query  (lines 373-378)
updateStatusFound(i) ==
    /\ pending[i].op = "updateStatus" /\ pending[i].pc = "find"
    /\ IF Found(pending[i].userId)
       THEN Goes(i, [Fetched(i) EXCEPT !.user.status = pending[i].input.status,
                                       !.pc = "save"])
       ELSE Settle(i, "User does not exist")
    /\ UNCHANGED <<docs, sent, uploaded, routerVars, ledgerVars, socketVars, awardVars,
                   bonusVars, rankVars, codecVars, mainVars>>

\* user.status = duration === 0 ? 'active' : 'banned'  (line 466)
BanStatus(duration) == IF duration = 0 THEN "active" ELSE "banned"

\* updateBanDeadline(userId, duration, description) up to its await  (lines
\* 457-461): without a userId it rejects at once.
updateBanDeadline(userId, duration, description) ==
    /\ LET input == [duration |-> duration, description |-> description]
       IN  IF userId = NONE
           THEN /\ outcome' = Called("updateBanDeadline", userId, input,
                                     "Invalid ban data supllied")
                /\ UNCHANGED <<docs, sent, uploaded, pending>>
           ELSE Start(Awaiting("updateBanDeadline", userId, input))
    /\ UNCHANGED <<routerVars, ledgerVars, socketVars, awardVars,
                   bonusVars, rankVars, codecVars, mainVars>>

\* updateBanDeadline after the query  (lines 462-469): the clock is read
\* here, the save is awaited next.
updateBanDeadlineFound(i) ==
    /\ pending[i].op = "updateBanDeadline" /\ pending[i].pc = "find"
    /\ LET duration == pending[i].input.duration
       IN  IF Found(pending[i].userId)
           THEN Goes(i, [Fetched(i) EXCEPT
                           !.user.status = BanStatus(duration),
                           !.user.reactivateOn = IF duration = 0 THEN NullDate
                                                 ELSE now + duration,
                           !.user.statusDescription = pending[i].input.description,
                           !.pc = "save"])
           ELSE Settle(i, "No user found")
    /\ UNCHANGED <<docs, sent, uploaded, routerVars, ledgerVars, socketVars, awardVars,
                   bonusVars, rankVars, codecVars, mainVars>>

\* updateUserConsent(userId) up to its await  (lines 314-315)
updateUserConsent(userId) ==
    /\ Start(Awaiting("updateUserConsent", userId, NoData))
    /\ UNCHANGED <<routerVars, ledgerVars, socketVars, awardVars,
                   bonusVars, rankVars, codecVars, mainVars>>

\* updateUserConsent after the query  (lines 317-323): the clock is read
\* here, the save is awaited next.
updateUserConsentFound(i) ==
    /\ pending[i].op = "updateUserConsent" /\ pending[i].pc = "find"
    /\ IF Found(pending[i].userId)
       THEN Goes(i, [Fetched(i) EXCEPT !.user.tosConsentedAt = UTCString(now),
                                       !.pc = "save"])
       ELSE Settle(i, "NOT_FOUND")
    /\ UNCHANGED <<docs, sent, uploaded, routerVars, ledgerVars, socketVars, awardVars,
                   bonusVars, rankVars, codecVars, mainVars>>

\* The preferences argument: undefined, or an object whose currency is a
\* string or missing.
NoPreferences == [defined |-> FALSE, currency |-> NONE]
Preferences == {NoPreferences} \cup
               {[defined |-> TRUE, currency |-> c] : c \in CURRENCIES \cup {"BTC", NONE}}

\* A validation that accepts every currency.
AnyCurrency(currency) == TRUE

\* const valid = CURRENCIES.includes(preferences.currency)  (line 330)
ValidCurrency(currency) == currency \in CURRENCIES

\* updateUserPreferences(userId, preferences) up to its await  (lines 326-327)
updateUserPreferences(userId, preferences) ==
    /\ Len(sent) + Len(pending) < MaxSent
    /\ Start(Awaiting("updateUserPreferences", userId, preferences))
    /\ UNCHANGED <<routerVars, ledgerVars, socketVars, awardVars,
                   bonusVars, rankVars, codecVars, mainVars>>

\* updateUserPreferences after the query  (lines 329-348): the currency is
\* validated, the event is sent, and the save is awaited next.  With no
\* user, the first read of user.preferences throws a TypeError: line 334
\* when preferences are given and valid, line 344 otherwise.
updateUserPreferencesFound(i) ==
    /\ pending[i].op = "updateUserPreferences" /\ pending[i].pc = "find"
    /\ LET userId == pending[i].userId
           preferences == pending[i].input
       IN  IF preferences.defined /\ ~ValidCurrency(preferences.currency)
           THEN /\ Settle(i, "User validation failed. Invalid currency")
                /\ sent' = sent
           ELSE IF ~Found(userId)
           THEN /\ Settle(i, "TypeError")
                /\ sent' = sent
           ELSE LET currency == IF preferences.defined THEN preferences.currency
                                ELSE docs[userId].currency
                IN  /\ Goes(i, [Fetched(i) EXCEPT !.user.currency = currency, !.pc = "save"])
                    /\ sent' = Send(sent, "event.user_set_currency",
                                     [event |-> "EVENT_USER_SET_CURRENCY", producer |-> "user",
                                      producerId |-> userId, data |-> [currency |-> currency]])
    /\ UNCHANGED <<docs, uploaded, routerVars, ledgerVars, socketVars, awardVars,
                   bonusVars, rankVars, codecVars, mainVars>>

\* The updatedUser argument: every member is a string, or undefined.
NoUpdate ==
    [name |-> NONE, username |-> NONE, image |-> NONE, alpacaBuilderProps |-> NONE,
     notificationSettings |-> NONE, aboutMe |-> NONE]

\* imageLocation.split('?')[0] of what awsS3Service.upload returned.
ImageLocation(userId, image) == IF image = "cat.png" THEN "s3/cat.png" ELSE "s3/image"

\* updateUser from one of its sections on, up to its next await or its end
\* (lines 145-311).  run holds the call and the sends and uploads so far.
\* With no user (user is null) the first read or write of a member of user
\* throws a TypeError.  updateUserData rewrites the copies of the name kept
\* in stored events, which this model does not hold.
RECURSIVE updateUserFrom(_, _)
updateUserFrom(section, run) ==
    LET userId == run.call.userId
        updatedUser == run.call.input
        user == run.call.user
        Throws == [run EXCEPT !.call.pc = "TypeError"]
    IN  CASE section = "name" ->
               IF updatedUser.name = NONE THEN updateUserFrom("username", run)
               ELSE IF ~run.call.found THEN Throws
               ELSE IF updatedUser.name = user.name THEN updateUserFrom("username", run)
               ELSE [run EXCEPT
                       !.call.user.name = updatedUser.name,
                       !.call.pc = "nameData",
                       !.sent = Send(@, "event.user_changed_name",
                                     Envelope("EVENT_USER_CHANGED_NAME", userId,
                                              [userId |-> userId, name |-> updatedUser.name,
                                               oldName |-> user.name, updatedAt |-> now], now))]
          [] section = "username" ->
               IF updatedUser.username = NONE THEN updateUserFrom("image", run)
               ELSE IF ~run.call.found THEN Throws
               ELSE IF updatedUser.username = user.username THEN updateUserFrom("image", run)
               ELSE [run EXCEPT
                       !.call.user.username = updatedUser.username,
                       !.call.pc = "usernameData",
                       !.sent = Send(@, "event.user_changed_username",
                                     Envelope("EVENT_USER_CHANGED_USERNAME", userId,
                                              [userId |-> userId,
                                               username |-> updatedUser.username,
                                               oldUsername |-> user.username,
                                               updatedAt |-> now], now))]
          [] section = "image" ->
               IF updatedUser.image = NONE THEN updateUserFrom("settings", run)
               ELSE [run EXCEPT
                       !.call.pc = "upload",
                       !.uploaded = Append(@, [userId |-> userId, image |-> updatedUser.image])]
          [] section = "picture" ->
               IF ~run.call.found THEN Throws
               ELSE updateUserFrom("settings",
                      [run EXCEPT
                         !.call.user.profilePicture = ImageLocation(userId, updatedUser.image),
                         !.call.user.alpacaBuilderProps = updatedUser.alpacaBuilderProps,
                         !.sent = Send(@, "event.user_uploaded_picture",
                                       Envelope("EVENT_USER_UPLOADED_PICTURE", userId,
                                                [userId |-> userId,
                                                 username |-> updatedUser.username,
                                                 image |-> updatedUser.image,
                                                 updatedAt |-> now], now))])
          [] section = "settings" ->
               \* !== on two objects: the request's settings are never the stored ones
               IF updatedUser.notificationSettings = NONE THEN updateUserFrom("aboutMe", run)
               ELSE IF ~run.call.found THEN Throws
               ELSE updateUserFrom("aboutMe",
                      [run EXCEPT
                         !.call.user.notificationSettings = updatedUser.notificationSettings,
                         !.sent = Send(@, "event.user_updated_email_preferences",
                                       [event |-> "EVENT_USER_UPDATED_EMAIL_PREFERENCES",
                                        producer |-> "user", producerId |-> userId,
                                        data |-> [notificationSettings |->
                                                    updatedUser.notificationSettings]])])
          [] section = "aboutMe" ->
               IF updatedUser.aboutMe = NONE THEN updateUserFrom("save", run)
               ELSE IF ~run.call.found THEN Throws
               ELSE IF user.aboutMe = updatedUser.aboutMe THEN updateUserFrom("save", run)
               ELSE updateUserFrom("save",
                      [run EXCEPT
                         !.call.user.aboutMe = updatedUser.aboutMe,
                         !.sent = Send(@, "event.user_changed_about_me",
                                       Envelope("EVENT_USER_CHANGED_ABOUT_ME", userId,
                                                [userId |-> userId,
                                                 username |-> updatedUser.username,
                                                 notificationSettings |->
                                                   user.notificationSettings,
                                                 updatedAt |-> now], now))])
          [] OTHER ->
               IF ~run.call.found THEN Throws ELSE [run EXCEPT !.call.pc = "save"]

\* Call i of updateUser, holding call, runs from section to its next await.
Resume(i, call, section) ==
    LET run == updateUserFrom(section, [call |-> call, sent |-> sent, uploaded |-> uploaded])
    IN  /\ sent' = run.sent
        /\ uploaded' = run.uploaded
        /\ IF run.call.pc = "TypeError" THEN Settle(i, "TypeError") ELSE Goes(i, run.call)
        /\ UNCHANGED <<docs, routerVars, ledgerVars, socketVars, awardVars,
                       bonusVars, rankVars, codecVars, mainVars>>

\* updateUser(userId, updatedUser) up to its await  (lines 142-143)
updateUser(userId, updatedUser) ==
    /\ Len(sent) + Len(pending) < MaxSent
    /\ Len(uploaded) + Len(pending) < MaxSent
    /\ Start(Awaiting("updateUser", userId, updatedUser))
    /\ UNCHANGED <<routerVars, ledgerVars, socketVars, awardVars,
                   bonusVars, rankVars, codecVars, mainVars>>

\* updateUser after the query  (line 145 on)
updateUserFound(i) ==
    /\ pending[i].op = "updateUser" /\ pending[i].pc = "find"
    /\ Resume(i, Fetched(i), "name")

\* await updateUserData(..).catch(..)  (lines 167-177, 204-214) has settled;
\* its failure is logged and the call goes on all the same.
updateUserDataSettled(i) ==
    /\ pending[i].pc \in {"nameData", "usernameData"}
    /\ Resume(i, pending[i], IF pending[i].pc = "nameData" THEN "username" ELSE "image")

\* await awsS3Service.upload(..)  (line 247) has answered.
uploadAnswered(i) ==
    /\ pending[i].pc = "upload"
    /\ Resume(i, pending[i], "picture")

\* ------------------------------------------------ getRankByUserId (rank)
RankUsers == {"A", "B", "C", "D"}
RankIds == RankUsers \cup {GhostUser}
Scores == {0, 10, 50, 100}

\* User.date, the registration date: A registered first, D last.
Registered(u) == CASE u = "A" -> 1 [] u = "B" -> 2 [] u = "C" -> 3 [] OTHER -> 4

\* A sort that puts the earlier registration first among equal amounts.
SortsBeforeEarlier(a, b) ==
    \/ a.amountWon > b.amountWon
    \/ (a.amountWon = b.amountWon /\ a.date < b.date)

\* .sort({ amountWon: -1, date: -1 })  (line 76): whether a comes before b.
SortsBefore(a, b) ==
    \/ a.amountWon > b.amountWon
    \/ (a.amountWon = b.amountWon /\ a.date > b.date)

\* The sorted sequence seq with x put at its place.
RECURSIVE Insert(_, _)
Insert(seq, x) ==
    IF seq = <<>> THEN <<x>>
    ELSE IF SortsBefore(x, Head(seq)) THEN <<x>> \o seq
    ELSE <<Head(seq)>> \o Insert(Tail(seq), x)

\* The documents of the users in S, sorted.
RECURSIVE Sorted(_)
Sorted(S) ==
    IF S = {} THEN <<>>
    ELSE LET u == CHOOSE x \in S : TRUE
         IN  Insert(Sorted(S \ {u}),
                    [_id |-> u, amountWon |-> population[u].amountWon,
                     date |-> population[u].date])

\* User.find({ username: { $exists: true } }).sort(..).select(..)  (lines 75-78)
FoundUsers == Sorted({u \in RankUsers : population[u].username})

\* The loop of lines 86-97 from index i on (i counts from 1).
RECURSIVE Scan(_, _, _, _, _)
Scan(users, userId, i, lastDiffAmount, result) ==
    IF i > Len(users) THEN result
    ELSE LET found == IF users[i]._id = userId
                      THEN [rank |-> i,
                            toNextRank |-> IF i = 1 THEN 0
                                           ELSE lastDiffAmount - users[i].amountWon]
                      ELSE result
             diff == IF lastDiffAmount = 0 \/ lastDiffAmount # users[i].amountWon
                     THEN users[i].amountWon
                     ELSE lastDiffAmount
         IN  Scan(users, userId, i + 1, diff, found)

\* A ranking that starts from rank 1.
RankFromOne(userId) == Scan(FoundUsers, userId, 1, 0, [rank |-> 1, toNextRank |-> 0])

\* getRankByUserId(userId): the ranking it returns  (lines 71-100).
RankByUserId(userId) == Scan(FoundUsers, userId, 1, 0, [rank |-> 0, toNextRank |-> 0])

NotAsked == [asked |-> FALSE, rank |-> 0, toNextRank |-> 0]

\* A caller asks for the rank of userId.
getRankByUserId(userId) ==
    /\ ~ranking[userId].asked
    /\ LET r == RankByUserId(userId)
       IN  ranking' = [ranking EXCEPT ![userId] =
                         [asked |-> TRUE, rank |-> r.rank, toNextRank |-> r.toNextRank]]
    /\ UNCHANGED <<population, routerVars, ledgerVars, socketVars, awardVars, bonusVars,
                   userVars, codecVars, mainVars>>

\* --------------------------------------------------------------- main()
\* The identifiers main() can name: its own const declarations (lines 45-96,
\* 138-145) and those of the module (lines 2-15).
DeclaredNames ==
    {"dotenv", "express", "http", "mongoose", "wallfair", "handleError",
     "mongoDBConnection", "adminService", "websocketService", "cors", "passport",
     "server", "httpServer", "socketioJwt", "io", "pubClient", "subClient"}

\* The start-up statements of main() after the database connection, in
\* source order, each with the identifier it is called on.
MainSteps ==
    <<[name |-> "onMessage",    receiver |-> "subClient"],         \* line 101
      [name |-> "subscribe",    receiver |-> "subClient"],         \* line 118
      [name |-> "setIO",        receiver |-> "websocketService"],  \* line 119
      [name |-> "routes",       receiver |-> "server"],            \* lines 122-164
      [name |-> "chatRoutes",   receiver |-> "app"],               \* line 166
      [name |-> "errorHandler", receiver |-> "server"],            \* line 170
      [name |-> "authorize",    receiver |-> "io"],                \* line 174
      [name |-> "onConnection", receiver |-> "io"],                \* line 181
      [name |-> "listen",       receiver |-> "httpServer"]>>       \* line 193

\* The statements run one after the other; naming an identifier that is not
\* declared throws a ReferenceError, which ends the run.
RECURSIVE RunSteps(_, _)
RunSteps(steps, done) ==
    IF steps = <<>> THEN [steps |-> done, error |-> "none"]
    ELSE IF Head(steps).receiver \notin DeclaredNames
    THEN [steps |-> done, error |-> "ReferenceError"]
    ELSE RunSteps(Tail(steps), Append(done, Head(steps).name))

NotStarted == [pc |-> "start", db |-> "pending", steps |-> <<>>, error |-> "none"]

\* main() as it has settled once the database connection succeeded: the
\* rest of the function (lines 47-198) has run without a further await.
Settled ==
    LET run == RunSteps(MainSteps, <<>>)
    IN  [pc |-> IF run.error = "none" THEN "returned" ELSE "rejected", db |-> "ok",
         steps |-> run.steps, error |-> run.error]

\* main() is called (line 200) and waits for connectMongoDB (line 45).
main ==
    /\ boot.pc = "start"
    /\ boot' = [boot EXCEPT !.pc = "connecting"]
    /\ UNCHANGED <<routerVars, ledgerVars, socketVars, awardVars, bonusVars, rankVars,
                   userVars, codecVars>>

\* mongoose.connect settles  (lines 28-42).  When it fails, main() rejects;
\* nothing handles the promise of main(), so the runtime either only warns
\* or ends the process.
connectMongoDB(ok) ==
    /\ boot.pc = "connecting"
    /\ IF ok
       THEN /\ boot' = [boot EXCEPT !.pc = "connected", !.db = "ok"]
            /\ subscriberUp' = subscriberUp
       ELSE /\ boot' = [boot EXCEPT !.pc = "rejected", !.db = "failed", !.error = "MongoError"]
            /\ subscriberUp' \in BOOLEAN
    /\ UNCHANGED <<handled, thrown, emitted, ledgerVars, socketVars, awardVars, bonusVars,
                   rankVars, userVars, codecVars>>

\* The rest of main() (lines 47-198) runs without a further await.  When it
\* throws, main() rejects; nothing handles its promise.
mainAfterConnect ==
    /\ boot.pc = "connected"
    /\ boot' = Settled
    /\ IF Settled.error = "none" THEN subscriberUp' = subscriberUp
       ELSE subscriberUp' \in BOOLEAN
    /\ UNCHANGED <<handled, thrown, emitted, ledgerVars, socketVars, awardVars, bonusVars,
                   rankVars, userVars, codecVars>>

\* ------------------------------------------------------- specifications
RouterIdle ==
    /\ handled = 0
    /\ thrown = {}
    /\ subscriberUp = TRUE
    /\ emitted = <<>>
    /\ calls = <<>>
    /\ amountWon = [u \in Users |-> InitialWon]
    /\ connected = {}
    /\ rooms = [r \in RoomKeys |-> {}]

AwardIdle ==
    /\ published = <<>>
    /\ checks = <<>>
    /\ expect = [u \in Users |-> 4]

BonusIdle ==
    /\ now = 0
    /\ bonus = [u \in BonusUsers |-> 0]
    /\ regs = <<>>
    /\ overlapped = FALSE

NoCall == [op |-> "none", userId |-> NONE, input |-> NoData, error |-> "none", tick |-> FALSE]

RankIdle ==
    /\ population = [u \in RankUsers |->
                       [amountWon |-> 0, date |-> Registered(u), username |-> TRUE]]
    /\ ranking = [u \in RankIds |-> NotAsked]

UserIdle ==
    /\ docs = [u \in Users |-> FreshUser]
    /\ pending = <<>>
    /\ sent = <<>>
    /\ outcome = NoCall
    /\ uploaded = <<>>

\* The process after start-up, where it has outlived the rejection of
\* main(): the runtime only warned of it, or a listener of the process took
\* it.
MainIdle == boot = Settled

CodecIdle ==
    /\ envelope = Envelope("EVENT_USER_CHANGED_NAME", "u1", [currency |-> "EUR"], 0)
    /\ wire = NoText
    /\ decoded = NotDecoded

InitRouter ==
    /\ RouterIdle
    /\ RankIdle /\ UserIdle /\ CodecIdle /\ MainIdle
    /\ AwardIdle /\ startBets = [u \in Users |-> 0] /\ totalBets = startBets
    /\ BonusIdle /\ others = 0

NextRouter ==
    \/ \E text \in RawMessages : handled < MaxMessages /\ OnMessage(text)
    \/ \E u \in Users \cup {GhostUser}, a \in Rewards : increaseAmountWon(u, a)
    \/ \E i \in 1..Len(calls) : StartSession(i)
    \/ \E i \in 1..Len(calls) : FindUser(i)
    \/ \E i \in 1..Len(calls) : SaveUser(i)
    \/ \E i \in 1..Len(calls) : CommitTransaction(i)
    \/ \E i \in 1..Len(calls) : EndSession(i)

SpecRouter == InitRouter /\ [][NextRouter]_vars

\* The router on well-formed messages while the datastore may fail a call.
RewardMessages ==
    {JSONstringify([event |-> e, to |-> t, data |-> DataOf(r)]) :
       e \in Events, t \in Users, r \in Rewards}

NextFailure ==
    \/ \E text \in RewardMessages : handled < MaxMessages /\ OnMessage(text)
    \/ \E i \in 1..Len(calls) : StartSession(i)
    \/ \E i \in 1..Len(calls) : FindUser(i)
    \/ \E i \in 1..Len(calls) : SaveUser(i)
    \/ \E i \in 1..Len(calls) : CommitTransaction(i)
    \/ \E i \in 1..Len(calls) : EndSession(i)
    \/ \E i \in 1..Len(calls) : FailCall(i)

SpecFailure == InitRouter /\ [][NextFailure]_vars

InitAward ==
    /\ RouterIdle
    /\ RankIdle /\ UserIdle /\ CodecIdle /\ MainIdle
    /\ AwardIdle /\ startBets \in [Users -> StartTotals] /\ startBets["u2"] <= 4
    /\ totalBets = startBets
    /\ BonusIdle /\ others = 0

NextAward ==
    \/ \E u \in Users, lookupOk \in BOOLEAN : checkTotalBetsAward(u, lookupOk)
    \/ \E i \in 1..Len(checks) : checkTotalBetsAwardResumes(i)
    \/ \E u \in Users : PlaceBet(u)

SpecAward == InitAward /\ [][NextAward]_vars

InitBonus ==
    /\ RouterIdle
    /\ RankIdle /\ UserIdle /\ CodecIdle /\ MainIdle
    /\ AwardIdle /\ startBets = [u \in Users |-> 0] /\ totalBets = startBets
    /\ BonusIdle /\ others \in StartHolders

NextBonus ==
    \/ \E u \in BonusUsers : checkUserRegistrationBonus(u)
    \/ \E i \in 1..Len(regs) : FindRegistered(i)
    \/ \E i \in 1..Len(regs) : transferBonus(i)
    \/ Tick

SpecBonus == InitBonus /\ [][NextBonus]_vars

\* The award flow called directly, and the mint.
NextMint ==
    \/ \E ref \in Users \cup {NONE}, a \in {0, 50} : rewardUserAction(ref, a)
    \/ \E u \in Users, awardData \in AwardDatas, broadcast \in BOOLEAN :
          CallCreateUserAwardEvent(u, awardData, broadcast)

SpecMint == InitRouter /\ [][NextMint]_vars

\* The per-user mutations, called for a stored user and for an id that
\* matches no user.
UserIds == {"u1", GhostUser}
UpdatedUsers ==
    {NoUpdate,
     [NoUpdate EXCEPT !.name = "Bob", !.notificationSettings = "none"],
     [NoUpdate EXCEPT !.image = "cat.png"],
     [NoUpdate EXCEPT !.username = "bob", !.aboutMe = "hello"]}

NextUser ==
    \/ \E u \in UserIds : updateStatus(u, "banned")
    \/ \E u \in {GhostUser, NONE} : updateBanDeadline(u, 1, "spam")
    \/ updateUserConsent(GhostUser)
    \/ updateUserPreferences(GhostUser, [defined |-> TRUE, currency |-> "EUR"])
    \/ \E updatedUser \in UpdatedUsers : updateUser(GhostUser, updatedUser)
    \/ saveUser("u1", "Bob")
    \/ \E i \in 1..Len(pending) : updateStatusFound(i)
    \/ \E i \in 1..Len(pending) : updateBanDeadlineFound(i)
    \/ \E i \in 1..Len(pending) : updateUserConsentFound(i)
    \/ \E i \in 1..Len(pending) : updateUserPreferencesFound(i)
    \/ \E i \in 1..Len(pending) : updateUserFound(i)
    \/ \E i \in 1..Len(pending) : uploadAnswered(i)
    \/ \E i \in 1..Len(pending) : SaveDocument(i)
    \/ \E i \in 1..Len(pending) : FailAwait(i)
    \/ \E u \in UserIds : increaseAmountWon(u, 1)
    \/ \E i \in 1..Len(calls) : StartSession(i)
    \/ \E i \in 1..Len(calls) : FindUser(i)
    \/ \E i \in 1..Len(calls) : SaveUser(i)
    \/ \E i \in 1..Len(calls) : CommitTransaction(i)
    \/ \E i \in 1..Len(calls) : EndSession(i)

SpecUser == InitRouter /\ [][NextUser]_vars

\* updateUser on a stored user and on an id that matches no user, two calls
\* at a time.
NextUpdate ==
    \/ \E u \in UserIds, updatedUser \in UpdatedUsers : updateUser(u, updatedUser)
    \/ \E i \in 1..Len(pending) : updateUserFound(i)
    \/ \E i \in 1..Len(pending) : updateUserDataSettled(i)
    \/ \E i \in 1..Len(pending) : uploadAnswered(i)
    \/ \E i \in 1..Len(pending) : SaveDocument(i)
    \/ \E i \in 1..Len(pending) : FailAwait(i)

SpecUpdate == InitRouter /\ [][NextUpdate]_vars

\* The preference updates alone.
NextPrefs ==
    \/ \E u \in UserIds, p \in Preferences : updateUserPreferences(u, p)
    \/ \E i \in 1..Len(pending) : updateUserPreferencesFound(i)
    \/ \E i \in 1..Len(pending) : SaveDocument(i)
    \/ \E i \in 1..Len(pending) : FailAwait(i)

SpecPrefs == InitRouter /\ [][NextPrefs]_vars

\* Every envelope of the channel, published and received.
InitCodec ==
    /\ RouterIdle
    /\ AwardIdle /\ startBets = [u \in Users |-> 0] /\ totalBets = startBets
    /\ BonusIdle /\ others = 0
    /\ RankIdle /\ UserIdle /\ MainIdle
    /\ envelope \in NotificationEnvelopes
    /\ wire = NoText
    /\ decoded = NotDecoded

NextCodec == Publish \/ Receive

SpecCodec == InitCodec /\ [][NextCodec]_vars

\* The start-up, and the messages the transport delivers once subscribed.
InitMain ==
    /\ RouterIdle
    /\ RankIdle /\ UserIdle /\ CodecIdle
    /\ AwardIdle /\ startBets = [u \in Users |-> 0] /\ totalBets = startBets
    /\ BonusIdle /\ others = 0
    /\ boot = NotStarted

NextMain ==
    \/ main
    \/ \E ok \in BOOLEAN : connectMongoDB(ok)
    \/ mainAfterConnect
    \/ \E text \in FanoutMessages : handled < MaxEmits /\ OnMessage(text)

SpecMain == InitMain /\ [][NextMain]_vars

\* Bans and status changes while time passes.
Durations == {0, 2}

NextBan ==
    \/ \E d \in Durations : updateBanDeadline("u1", d, "spam")
    \/ \E status \in {"active", "banned"} : updateStatus("u1", status)
    \/ \E i \in 1..Len(pending) : updateBanDeadlineFound(i)
    \/ \E i \in 1..Len(pending) : updateStatusFound(i)
    \/ \E i \in 1..Len(pending) : SaveDocument(i)
    \/ \E i \in 1..Len(pending) : FailAwait(i)
    \/ Tick

SpecBan == InitRouter /\ [][NextBan]_vars

\* The ranking asked of every population of four users.
InitRank ==
    /\ RouterIdle
    /\ AwardIdle /\ startBets = [u \in Users |-> 0] /\ totalBets = startBets
    /\ BonusIdle /\ others = 0
    /\ UserIdle /\ CodecIdle /\ MainIdle
    /\ population \in [RankUsers -> [amountWon : Scores, date : 1..4, username : BOOLEAN]]
    /\ \A u \in RankUsers : population[u].date = Registered(u)
    /\ ranking = [u \in RankIds |-> NotAsked]

NextRank == \E userId \in RankIds : getRankByUserId(userId)

SpecRank == InitRank /\ [][NextRank]_vars

\* ================================================================ claims

RECURSIVE SumAmounts(_, _)
\* The sum of the amounts of the first n calls addressed to user u.
SumAmounts(u, n) ==
    IF n = 0 THEN 0
    ELSE (IF calls[n].userId = u THEN calls[n].amount ELSE 0) + SumAmounts(u, n - 1)

AllCallsDone == \A i \in 1..Len(calls) : calls[i].pc = "done"

\* C1: once all increaseAmountWon calls have finished, every user's amountWon
\* is its initial value plus the sum of the deltas of the calls on that user
\* (no lost update), the calls started by the router included.
C1_NoLostUpdate ==
    AllCallsDone =>
        \A u \in Users : amountWon[u] = InitialWon + SumAmounts(u, Len(calls))

\* Two finished calls on the same user, one of them started by the router.
C1_Witness ==
    /\ AllCallsDone
    /\ \E i, j \in 1..Len(calls) :
          i # j /\ calls[i].userId = calls[j].userId /\ calls[i].userId \in Users
          /\ calls[j].msg > 0

\* C3: a malformed raw message is dropped: the handler raises no error to the
\* transport and the router stays up for the following messages.
C3_MalformedDropped == thrown = {} /\ subscriberUp

\* C4: when a CASINO_REWARD envelope has been emitted, the increaseAmountWon
\* call of that message has already been carried out.
C4_RewardBeforeEmit ==
    \A i \in 1..Len(emitted) :
        emitted[i].event = "CASINO_REWARD" =>
            \A j \in 1..Len(calls) : calls[j].msg = emitted[i].msg => calls[j].pc = "done"

\* C5: the handler starts on a message only when all processing of the
\* earlier messages (their balance updates included) has finished, and the
\* emits are made in the order of delivery.
C5_OneAtATime ==
    [][handled' > handled =>
          /\ \A j \in 1..Len(calls) : calls[j].msg # 0 => calls[j].pc = "done"
          /\ \A i, j \in 1..Len(emitted') : i < j => emitted'[i].msg < emitted'[j].msg]_vars

\* C6: every envelope the handler decodes (a message that is not malformed:
\* the handler does not throw on it) is emitted exactly once: restricted to
\* the room envelope.to, and reaching its members, when to is present;
\* restricted to no room, and reaching all live connections, when to is
\* absent.
C6_ForwardedOnce ==
    [][(handled' > handled /\ ~\E t \in thrown' : t.msg = handled') =>
          /\ Len(emitted') = Len(emitted) + 1
          /\ LET e == emitted'[Len(emitted')]
             IN  /\ e.msg = handled'
                 /\ IF e.room # NONE
                    THEN e.rooms = {e.room} /\ e.recipients = ioTo(e.room)
                    ELSE e.rooms = {} /\ e.recipients = connected]_vars

\* The user_award notifications published for user u.
AwardsOf(u) == SelectSeq(published, LAMBDA e : e.producerId = u)

\* C7: a checkTotalBetsAward call publishes a user_award notification if and
\* only if the total it read is one of 5, 20, 50, 100, 150, with the reward
\* table's amount for that total; the total it reads is the user's total
\* bets at that moment, and a failed lookup counts as total 0 and publishes
\* nothing; and when the calls of a user read exactly the totals 4,5,6,...,20
\* in turn, exactly two awards fire, at 5 and at 20.
C7_AwardIffMilestone ==
    /\ [][Len(checks') = Len(checks) + 1 =>
            LET c == checks'[Len(checks')]
            IN  TotalOf(c.totalUserBets) = IF c.lookupOk THEN totalBets[c.userId] ELSE 0]_vars
    /\ [][IF Len(checks') < Len(checks)
          THEN \E i \in 1..Len(checks) :
                 /\ checks' = Remove(checks, i)
                 /\ LET u == checks[i].userId
                        total == TotalOf(checks[i].totalUserBets)
                    IN  IF total \in {5, 20, 50, 100, 150}
                        THEN published' =
                               Append(published,
                                      UserAward(u, [type |-> "TOTAL_BETS_ABOVE_VALUE",
                                                    total |-> total,
                                                    award |-> WFAIR_REWARDS_totalBets(total)],
                                                FALSE))
                        ELSE published' = published
          ELSE published' = published]_vars
    /\ [](\A u \in Users :
            expect[u] = 21 =>
               /\ Len(AwardsOf(u)) = 2
               /\ AwardsOf(u)[1].data.awardData.total = 5
               /\ AwardsOf(u)[2].data.awardData.total = 20)

\* A user whose calls read 4,5,...,20 in turn, with two awards published.
C7_Witness == \E u \in Users : expect[u] = 21 /\ Len(AwardsOf(u)) = 2

\* C8: at most one award has been issued per user and milestone value.
C8_AtMostOncePerMilestone ==
    \A u \in Users, m \in Milestones :
        Cardinality({i \in 1..Len(published) :
                        published[i].producerId = u
                        /\ published[i].data.awardData.total = m}) <= 1

\* C9: when the checkUserRegistrationBonus calls never overlap, the number of
\* users holding the registration bonus never exceeds the capacity.
C9_CapSequential == ~overlapped => alreadyRegistered <= totalUsers

\* C10: with N calls for distinct users, the number of users holding the
\* registration bonus exceeds the capacity by at most N - 1.
C10_OverrunAtMostNminus1 ==
    (\A i, j \in 1..Len(regs) : i # j => regs[i].userId # regs[j].userId) =>
        alreadyRegistered <= totalUsers + (IF Len(regs) > 0 THEN Len(regs) - 1 ELSE 0)

\* Bonuses granted so far: the allocations that existed at the start and
\* every transfer made since.
granted == others + bonus["u1"] + bonus["u2"] + bonus["u3"]

\* The calls made after the deadline.
LateCalls == {i \in 1..Len(regs) : regs[i].at > bonusValidUntil}

\* C11 (as stated): a checkUserRegistrationBonus call made past the deadline
\* grants nothing and changes no state, and once the deadline has passed the
\* number of granted bonuses never increases again.
C11_NoGrantAfterDeadline ==
    [][now > bonusValidUntil => granted' = granted /\ bonus' = bonus]_vars

\* C11 (amended): a call made past the deadline returns at once, grants
\* nothing and changes no state, whatever the number of allocations; and once
\* the deadline has passed and every call made before it has finished, the
\* number of granted bonuses never increases again.
C11_LateCallIsNoOp ==
    /\ [][/\ (Len(regs') = Len(regs) + 1 /\ now > bonusValidUntil)
              => /\ regs'[Len(regs')].pc = "done"
                 /\ bonus' = bonus /\ others' = others
          /\ (now > bonusValidUntil
               /\ \A i \in 1..Len(regs) : i \in LateCalls \/ regs[i].pc = "done")
              => granted' = granted]_vars
    /\ [](\A i \in LateCalls : regs[i].pc = "done" /\ regs[i].count = 0)

\* A call was made past the deadline while the program still had room, after
\* an earlier call had granted a bonus.
C11_Witness ==
    /\ LateCalls # {}
    /\ granted = 1
    /\ \E i \in 1..Len(regs) : i \notin LateCalls /\ regs[i].pc = "done"

\* C12: whatever checkUserRegistrationBonus calls are made for one userId,
\* repeated or overlapping, that user is granted the bonus at most once.
C12_GrantedAtMostOnce == \A u \in BonusUsers : bonus[u] <= 1

\* The users with a username that the order puts before u when the later
\* registration goes first among equal amounts.
AheadOf(u) ==
    {v \in RankUsers : /\ population[v].username
                       /\ \/ population[v].amountWon > population[u].amountWon
                          \/ /\ population[v].amountWon = population[u].amountWon
                             /\ population[v].date > population[u].date}

\* The same when the earlier registration goes first.
AheadOfEarlier(u) ==
    {v \in RankUsers : /\ population[v].username
                       /\ \/ population[v].amountWon > population[u].amountWon
                          \/ /\ population[v].amountWon = population[u].amountWon
                             /\ population[v].date < population[u].date}

Ranked(u) == ranking[u].asked /\ population[u].username

\* The population of the example: scores 100, 100, 50, 10 of A, B, C, D.
ExamplePopulation ==
    /\ \A u \in RankUsers : population[u].username
    /\ population["A"].amountWon = 100 /\ population["B"].amountWon = 100
    /\ population["C"].amountWon = 50 /\ population["D"].amountWon = 10

\* C13 (as stated): rank = 1 + the user's position in the users with a
\* username ordered by amountWon descending, the earlier registration first
\* among equal amounts; for 100, 100, 50, 10 the ranks are A=1, B=2, C=3, D=4.
C13_RankEarlierFirst ==
    /\ \A u \in RankUsers : Ranked(u) => ranking[u].rank = 1 + Cardinality(AheadOfEarlier(u))
    /\ ExamplePopulation =>
          /\ ranking["A"].asked => ranking["A"].rank = 1
          /\ ranking["B"].asked => ranking["B"].rank = 2
          /\ ranking["C"].asked => ranking["C"].rank = 3
          /\ ranking["D"].asked => ranking["D"].rank = 4

\* C13 (amended): rank = 1 + the user's position in the users with a username
\* ordered by amountWon descending, so ranks are positional and tied users
\* get different ranks; among equal amounts the LATER registration gets the
\* smaller rank: for 100, 100, 50, 10 the ranks are A=2, B=1, C=3, D=4.
C13_RankLaterFirst ==
    /\ \A u \in RankUsers : Ranked(u) => ranking[u].rank = 1 + Cardinality(AheadOf(u))
    /\ \A u, v \in RankUsers : (Ranked(u) /\ Ranked(v) /\ u # v)
                                  => ranking[u].rank # ranking[v].rank
    /\ ExamplePopulation =>
          /\ ranking["A"].asked => ranking["A"].rank = 2
          /\ ranking["B"].asked => ranking["B"].rank = 1
          /\ ranking["C"].asked => ranking["C"].rank = 3
          /\ ranking["D"].asked => ranking["D"].rank = 4

\* The ranks of all four users of the example have been asked.
C13_Witness == ExamplePopulation /\ \A u \in RankUsers : ranking[u].asked

\* The amounts strictly above u's among the users with a username.
AmountsAbove(u) ==
    {population[v].amountWon : v \in {w \in RankUsers : /\ population[w].username
                                                        /\ population[w].amountWon
                                                             > population[u].amountWon}}

\* The nearest of them.
NearestAbove(u) == CHOOSE a \in AmountsAbove(u) : \A b \in AmountsAbove(u) : a <= b

\* C14: the first-ranked user gets toNextRank = 0; every user with a strictly
\* larger amountWon above them gets toNextRank = (the nearest distinct amount
\* above) - (their own amount); so users sharing an amountWon get the same
\* toNextRank (for 100, 50, 50 both users with 50 get 50).
C14_GapToNearestDistinct ==
    /\ \A u \in RankUsers :
          Ranked(u) =>
            /\ ranking[u].rank = 1 => ranking[u].toNextRank = 0
            /\ AmountsAbove(u) # {} =>
                  ranking[u].toNextRank = NearestAbove(u) - population[u].amountWon
    /\ \A u, v \in RankUsers :
          (/\ Ranked(u) /\ Ranked(v)
           /\ population[u].amountWon = population[v].amountWon
           /\ AmountsAbove(u) # {})
          => ranking[u].toNextRank = ranking[v].toNextRank

\* C15: mintUser always fails with the not-supported error and changes no
\* state; every createUserAwardEvent call, with or without an award amount,
\* publishes exactly one user_award notification that carries the caller's
\* broadcast flag, and completes without an error.
C15_MintFailureNotFatal ==
    [][outcome'.tick # outcome.tick =>
         /\ outcome'.op = "mintUser" =>
               /\ outcome'.error = "Not supported"
               /\ UNCHANGED <<published, docs, sent, uploaded, amountWon, calls, bonus>>
         /\ outcome'.op = "createUserAwardEvent" =>
               /\ outcome'.error = "none"
               /\ Len(published') = Len(published) + 1
               /\ SubSeq(published', 1, Len(published)) = published
               /\ LET e == published'[Len(published')]
                  IN  /\ e.event = "EVENT_USER_AWARD"
                      /\ e.producerId = outcome'.userId
                      /\ e.data.awardData = outcome'.input.awardData
                      /\ e.broadcast = outcome'.input.broadcast
               /\ UNCHANGED <<docs, sent, uploaded, amountWon, calls, bonus>>]_vars

\* Awards were published with and without an amount, one of them with the
\* broadcast flag set, and a mint was then asked for directly.
C15_Witness ==
    /\ outcome.op = "mintUser"
    /\ \E i, j \in 1..Len(published) :
          /\ published[i].data.awardData.award # 0 /\ published[i].broadcast
          /\ published[j].data.awardData.award = 0 /\ ~published[j].broadcast

\* The operations C16 names, but for increaseAmountWon (followed in calls).
PerUserMutations ==
    {"updateStatus", "updateBanDeadline", "updateUserConsent", "updateUserPreferences",
     "updateUser"}

\* The producerId of a sent notification.
ProducerOf(m) == Member(m.message.members, "producerId", NONE)

\* C16: every per-user mutation called with a userId that matches no user
\* (increaseAmountWon, updateStatus, updateBanDeadline, updateUserConsent,
\* updateUserPreferences, updateUser) reports an error to its caller, changes
\* no stored state and publishes no event: such a call ends with an error,
\* never gets past its query, and nothing is uploaded or sent in its name.
C16_UnknownUserIsAnError ==
    /\ [][(/\ outcome'.tick # outcome.tick
           /\ outcome'.op \in PerUserMutations
           /\ ~Found(outcome'.userId))
           => /\ outcome'.error # "none"
              /\ UNCHANGED <<docs, amountWon, published>>]_vars
    /\ [](\A i \in 1..Len(pending) : ~Found(pending[i].userId) => pending[i].pc = "find")
    /\ [](\A i \in 1..Len(uploaded) : Found(uploaded[i].userId))
    /\ [](\A i \in 1..Len(sent) : Found(ProducerOf(sent[i])))
    /\ [](\A i \in 1..Len(calls) :
             ~Found(calls[i].userId) =>
                 calls[i].pc \in {"session", "find", "abort", "failed"})

\* The preferences of a call that names a currency outside the list.
InvalidPreferences(input) ==
    input.defined /\ input.currency \notin {"WFAIR", "EUR", "USD"}

\* C17: updateUserPreferences with a preferences object whose currency is not
\* one of WFAIR, EUR, USD (a missing currency included) is rejected with an
\* error, leaves the stored currency unchanged and publishes no
\* user_set_currency event: the call never reaches its send or its save; so
\* the stored currency, and the currency of every event, is one of the three.
C17_InvalidCurrencyRejected ==
    /\ [][(/\ outcome'.tick # outcome.tick
            /\ outcome'.op = "updateUserPreferences"
            /\ InvalidPreferences(outcome'.input))
           => /\ outcome'.error # "none"
              /\ docs' = docs
              /\ sent' = sent]_vars
    /\ [](\A i \in 1..Len(pending) : InvalidPreferences(pending[i].input)
                                       => pending[i].pc = "find")
    /\ [](\A u \in Users : docs[u].currency \in {"WFAIR", "EUR", "USD"})
    /\ [](\A i \in 1..Len(sent) :
             ParsedObject(sent[i].message).data.currency \in {"WFAIR", "EUR", "USD"})

\* A stored user changed the currency to EUR, and a later update with no
\* currency in the preferences object was rejected.
C17_Witness ==
    /\ outcome.op = "updateUserPreferences" /\ outcome.userId = "u1"
    /\ outcome.input.defined /\ outcome.input.currency = NONE
    /\ outcome.error # "none"
    /\ docs["u1"].currency = "EUR"
    /\ Len(sent) = 1

\* C18: a user's amountWon never decreases, whatever router messages and
\* increaseAmountWon calls happen and whatever reward the envelopes carry.
C18_AmountWonNeverDecreases ==
    [][\A u \in Users : amountWon'[u] >= amountWon[u]]_vars

\* C19: when increaseAmountWon fails for a CASINO_REWARD message, the failure
\* is surfaced to the router as the caller, is not retried (a failed call
\* stays as it failed), stays with that message and never aborts the
\* subscriber: the step in which the call fails leaves the subscriber running
\* and the router's record of the other messages as it was.
C19_FailureConfined ==
    [][\A i \in 1..Len(calls) :
         /\ (calls[i].msg > 0 /\ calls[i].pc # "failed" /\ calls'[i].pc = "failed")
            => /\ calls'[i].rejection = "caller"
               /\ subscriberUp' = subscriberUp
               /\ UNCHANGED <<handled, thrown, emitted, amountWon>>
         /\ calls[i].pc = "failed" => calls'[i] = calls[i]]_vars

\* C20 (as stated): encoding a valid NotificationEnvelope (event, producer,
\* producerId, data, date, broadcast, optional to) as the publishers do and
\* decoding it as the router does yields an envelope with the same fields and
\* the same values.
C20_RoundTrip == decoded.done => decoded.object = envelope

\* obj without the members whose value is undefined.
DefinedMembers(obj) ==
    [k \in {j \in DOMAIN obj : ~(j \in StringKeys /\ obj[j] = NONE)} |-> obj[k]]

\* C20 (amended): encoding and decoding yields an envelope with the same
\* fields and values, except that a member of data whose value is undefined
\* is left out by the encoding and is absent from the decoded envelope.
C20_RoundTripButUndefined ==
    decoded.done =>
        /\ DOMAIN decoded.object = DOMAIN envelope
        /\ \A k \in DOMAIN envelope \ {"data"} : decoded.object[k] = envelope[k]
        /\ decoded.object["data"] = DefinedMembers(envelope["data"])

\* An envelope addressed to a user, with the name-change payload of a user
\* that had no name, has been published and parsed: oldName is gone.
C20_Witness ==
    /\ decoded.done
    /\ "to" \in DOMAIN envelope /\ envelope["to"] = "u2"
    /\ "oldName" \in DOMAIN envelope["data"] /\ envelope["data"]["oldName"] = NONE
    /\ "oldName" \notin DOMAIN decoded.object["data"]
    /\ decoded.object["data"]["name"] = "Bob"
    /\ decoded.object["date"] = 1

\* C21: once the database connection has succeeded, every run of main() goes
\* through all its start-up steps in order: it subscribes to the message
\* channel, mounts the routes, registers the JWT authorization and the
\* connection handler on the socket server, and ends with the HTTP server
\* listening.
C21_StartUpCompletes ==
    (boot.db = "ok" /\ boot.pc # "connected")
    => /\ boot.error = "none"
       /\ boot.steps = <<"onMessage", "subscribe", "setIO", "routes", "chatRoutes",
                         "errorHandler", "authorize", "onConnection", "listen">>

\* The status of u is banned exactly when its reactivateOn is set.
Paired(u) == (docs[u].status = "banned") <=> (docs[u].reactivateOn # NullDate)

\* C22: after any sequence of updateBanDeadline and updateStatus calls on an
\* existing user, the status is banned if and only if reactivateOn is set.
C22_BannedIffDeadline == \A u \in Users : Paired(u)

\* The ranked population: the users with a username.
RankedUsers == {u \in RankUsers : population[u].username}

\* C23: getRankByUserId for a userId outside the ranked population (an
\* unknown id, or a user without a username) returns rank 0 and toNextRank 0;
\* for every user of the population the rank is between 1 and the
\* population's size and toNextRank is not negative.
C23_RankInRange ==
    \A u \in RankIds :
      ranking[u].asked =>
        IF u \in RankedUsers
        THEN /\ ranking[u].rank \in 1..Cardinality(RankedUsers)
             /\ ranking[u].toNextRank >= 0
        ELSE ranking[u].rank = 0 /\ ranking[u].toNextRank = 0

\* The unknown id, a user without a username and the last of three ranked
\* users, two of them tied, have all been asked.
C23_Witness ==
    /\ ranking[GhostUser].asked
    /\ ~population["A"].username /\ ranking["A"].asked
    /\ RankedUsers = {"B", "C", "D"}
    /\ population["B"].amountWon = 50 /\ population["C"].amountWon = 50
    /\ population["D"].amountWon = 100
    /\ ranking["B"].asked /\ ranking["B"].rank = 3

====
